---- MODULE Spec2Model ----
(***************************************************************************)
(* Model of code.py: the subway sign's time normalisation                  *)
(* (TrainTimeParser.get_current_time_utc, parse_iso8601_to_utc), schedule  *)
(* aggregation (parse_train_times, format_train_text_with_badges), scroll  *)
(* geometry (create_scrolling_display, the inner tick loop) and the main   *)
(* session loop with its 20-minute cap.                                    *)
(*                                                                         *)
(* Python strings are sequences of one-character strings, so that split,   *)
(* rsplit, slicing and int() are modelled by what they do.                 *)
(***************************************************************************)
EXTENDS Integers, Sequences, FiniteSets, TLC

(***************************************************************************)
(* Python string primitives                                                *)
(***************************************************************************)
Digits == <<"0", "1", "2", "3", "4", "5", "6", "7", "8", "9">>

IsDigit(c) == \E k \in 1..10 : Digits[k] = c

DigitVal(c) == (CHOOSE k \in 1..10 : Digits[k] = c) - 1

AllDigits(s) == Len(s) >= 1 /\ \A k \in 1..Len(s) : IsDigit(s[k])

RECURSIVE DigitsVal(_)
DigitsVal(s) ==
    IF s = <<>> THEN 0
    ELSE 10 * DigitsVal(SubSeq(s, 1, Len(s) - 1)) + DigitVal(s[Len(s)])

\* A Python result: a value, or a raised exception named by err.
Ok(v) == [ok |-> TRUE, val |-> v, err |-> "none"]
Raise(e) == [ok |-> FALSE, val |-> 0, err |-> e]

\* int(s) on a str: an optional sign and one or more decimal digits.
PyInt(s) ==
    IF s # <<>> /\ s[1] \in {"+", "-"}
    THEN IF AllDigits(Tail(s))
         THEN Ok((IF s[1] = "-" THEN -1 ELSE 1) * DigitsVal(Tail(s)))
         ELSE Raise("ValueError")
    ELSE IF AllDigits(s) THEN Ok(DigitsVal(s)) ELSE Raise("ValueError")

\* The index of the first / last occurrence of c in s, 0 when there is none.
FirstIndex(s, c) ==
    IF \E k \in 1..Len(s) : s[k] = c
    THEN CHOOSE k \in 1..Len(s) : s[k] = c /\ \A j \in 1..(k - 1) : s[j] # c
    ELSE 0

LastIndex(s, c) ==
    IF \E k \in 1..Len(s) : s[k] = c
    THEN CHOOSE k \in 1..Len(s) : s[k] = c /\ \A j \in (k + 1)..Len(s) : s[j] # c
    ELSE 0

Contains(s, c) == FirstIndex(s, c) # 0

\* int(float(s)): digits, optionally a point and more digits; the fraction
\* is dropped by int().
PyIntOfFloat(s) ==
    LET p == FirstIndex(s, ".")
        whole == IF p = 0 THEN s ELSE SubSeq(s, 1, p - 1)
        frac == IF p = 0 THEN <<>> ELSE SubSeq(s, p + 1, Len(s))
    IN  IF AllDigits(whole) /\ (frac = <<>> \/ AllDigits(frac))
        THEN Ok(DigitsVal(whole))
        ELSE Raise("ValueError")

\* s.split(c): every piece between separators, empty pieces included.
RECURSIVE SplitOn(_, _)
SplitOn(s, c) ==
    LET p == FirstIndex(s, c)
    IN  IF p = 0 THEN <<s>>
        ELSE <<SubSeq(s, 1, p - 1)>> \o SplitOn(SubSeq(s, p + 1, Len(s)), c)

\* s.split(): pieces between runs of blanks, no empty piece.
SplitBlank(s) == SelectSeq(SplitOn(s, " "), LAMBDA t : t # <<>>)

\* s.rsplit(c, 1): at most one split, at the last occurrence of c.
RSplit1(s, c) ==
    LET p == LastIndex(s, c)
    IN  IF p = 0 THEN <<s>>
        ELSE <<SubSeq(s, 1, p - 1), SubSeq(s, p + 1, Len(s))>>

\* s[a:b] with 0 <= a <= b, clamped to the string as Python clamps it.
Slice(s, a, b) ==
    LET hi == IF b < Len(s) THEN b ELSE Len(s)
    IN  IF a >= hi THEN <<>> ELSE SubSeq(s, a + 1, hi)

\* map(int, pieces) unpacked into exactly n names.
IntFields(pieces, n) ==
    IF Len(pieces) # n THEN Raise("ValueError")
    ELSE IF \E k \in 1..n : ~PyInt(pieces[k]).ok THEN Raise("ValueError")
    ELSE Ok([k \in 1..n |-> PyInt(pieces[k]).val])

(***************************************************************************)
(* time.mktime on a tuple with no zone database: days since 1970-01-01 by  *)
(* civil-calendar arithmetic, times 86400, plus the time of day.           *)
(***************************************************************************)
DaysFromCivil(y, m, d) ==
    LET yy == IF m <= 2 THEN y - 1 ELSE y
        era == yy \div 400
        yoe == yy - era * 400
        mp == IF m > 2 THEN m - 3 ELSE m + 9
        doy == (153 * mp + 2) \div 5 + d - 1
        doe == yoe * 365 + yoe \div 4 - yoe \div 100 + doy
    IN  era * 146097 + doe - 719468

mktime(year, month, day, hour, minute, second) ==
    DaysFromCivil(year, month, day) * 86400 + hour * 3600 + minute * 60 + second

(***************************************************************************)
(* TrainTimeParser.get_current_time_utc                                    *)
(***************************************************************************)
\* The offset token used when the reading has no fifth token.
DefaultTzOffsetStr == <<"+", "0", "0", "0", "0">>

TzOffsetStrAbsentAsUtc8(parts) ==
    IF Len(parts) > 4 THEN parts[5] ELSE <<"-", "0", "8", "0", "0">>

\* tz_offset_str = parts[4] if len(parts) > 4 else "+0000"
TzOffsetStr(parts) == IF Len(parts) > 4 THEN parts[5] ELSE DefaultTzOffsetStr

\* tz_sign * (tz_hours * 3600 + tz_minutes * 60), from the characters of
\* the offset token; int() of a slice that is no number raises ValueError.
TzOffsetSeconds(tz_offset_str) ==
    LET tz_sign == IF tz_offset_str[1] = "+" THEN 1 ELSE -1
        tz_hours == PyInt(Slice(tz_offset_str, 1, 3))
        tz_minutes == PyInt(Slice(tz_offset_str, 3, 5))
    IN  IF tz_hours.ok /\ tz_minutes.ok
        THEN Ok(tz_sign * (tz_hours.val * 3600 + tz_minutes.val * 60))
        ELSE Raise("ValueError")

\* The body of the try block for a string reading.
ParseTimeString(text) ==
    LET parts == SplitBlank(text)
    IN  IF Len(parts) < 2 THEN Raise("IndexError")
        ELSE
        LET date_str == parts[1]
            time_str == parts[2]
            tz_offset_str == TzOffsetStr(parts)
            ymd == IntFields(SplitOn(date_str, "-"), 3)
            hms == SplitOn(time_str, ":")
        IN  IF ~ymd.ok \/ Len(hms) # 3 THEN Raise("ValueError")
            ELSE
            LET hour == PyInt(hms[1])
                minute == PyInt(hms[2])
                second == PyIntOfFloat(hms[3])
                tz_offset_seconds == TzOffsetSeconds(tz_offset_str)
            IN  IF ~hour.ok \/ ~minute.ok \/ ~second.ok \/ ~tz_offset_seconds.ok
                THEN Raise("ValueError")
                ELSE Ok(mktime(ymd.val[1], ymd.val[2], ymd.val[3],
                               hour.val, minute.val, second.val)
                        - tz_offset_seconds.val)

\* A reading of network.get_local_time(): a number, a struct_time, a string
\* or anything else.  host_time is what time.time() returns.
NoText == <<>>
NoTm == <<1970, 1, 1, 0, 0, 0>>

NumberReading(n) == [kind |-> "number", epoch |-> n, tm |-> NoTm, text |-> NoText]
StructReading(t) == [kind |-> "struct_time", epoch |-> 0, tm |-> t, text |-> NoText]
StringReading(s) == [kind |-> "str", epoch |-> 0, tm |-> NoTm, text |-> s]
OtherReading == [kind |-> "other", epoch |-> 0, tm |-> NoTm, text |-> NoText]

get_current_time_utc(time_response, host_time) ==
    CASE time_response.kind = "number" -> time_response.epoch
      [] time_response.kind = "struct_time" ->
            mktime(time_response.tm[1], time_response.tm[2], time_response.tm[3],
                   time_response.tm[4], time_response.tm[5], time_response.tm[6])
      [] time_response.kind = "str" ->
            LET r == ParseTimeString(time_response.text)
            IN  IF r.ok THEN r.val ELSE host_time
      [] OTHER -> host_time

(***************************************************************************)
(* TrainTimeParser.parse_iso8601_to_utc                                    *)
(***************************************************************************)
\* The split into (dt_part, tz_part, tz_sign).
IsoSplitMinusAsPlus(time_str) ==
    IF Contains(time_str, "+")
    THEN LET p == RSplit1(time_str, "+")
         IN  [dt_part |-> p[1], tz_part |-> p[2], tz_sign |-> 1]
    ELSE LET parts == RSplit1(time_str, "-")
         IN  [dt_part |-> parts[1],
              tz_part |-> IF Len(parts) > 1 /\ Contains(parts[2], ":")
                          THEN parts[2] ELSE <<"0", "0", ":", "0", "0">>,
              tz_sign |-> 1]

IsoSplit(time_str) ==
    IF Contains(time_str, "+")
    THEN LET p == RSplit1(time_str, "+")
         IN  [dt_part |-> p[1], tz_part |-> p[2], tz_sign |-> 1]
    ELSE LET parts == RSplit1(time_str, "-")
         IN  [dt_part |-> parts[1],
              tz_part |-> IF Len(parts) > 1 /\ Contains(parts[2], ":")
                          THEN parts[2] ELSE <<"0", "0", ":", "0", "0">>,
              tz_sign |-> -1]

parse_iso8601_to_utc(time_str) ==
    LET sp == IsoSplit(time_str)
        dt == SplitOn(sp.dt_part, "T")
    IN  IF Len(dt) # 2 THEN Raise("ValueError")
        ELSE
        LET ymd == IntFields(SplitOn(dt[1], "-"), 3)
            hms == IntFields(SplitOn(dt[2], ":"), 3)
            tz == IntFields(SplitOn(sp.tz_part, ":"), 2)
        IN  IF ~ymd.ok \/ ~hms.ok \/ ~tz.ok THEN Raise("ValueError")
            ELSE
            LET tz_offset_seconds == sp.tz_sign * (tz.val[1] * 3600 + tz.val[2] * 60)
                local_timestamp == mktime(ymd.val[1], ymd.val[2], ymd.val[3],
                                          hms.val[1], hms.val[2], hms.val[3])
            IN  Ok(local_timestamp - tz_offset_seconds)

(***************************************************************************)
(* Text of the inputs: the feeds format their fields as decimal text.      *)
(***************************************************************************)
Dec2(n) == <<Digits[((n \div 10) % 10) + 1], Digits[(n % 10) + 1]>>
Dec4(n) == Dec2(n \div 100) \o Dec2(n % 100)

DateText(d) == Dec4(d[1]) \o <<"-">> \o Dec2(d[2]) \o <<"-">> \o Dec2(d[3])
TimeText(t) == Dec2(t[1]) \o <<":">> \o Dec2(t[2]) \o <<":">> \o Dec2(t[3])

\* "2026-01-07T14:33:01-05:00": off = <<sign, hours, minutes>>.
IsoText(d, t, off) ==
    DateText(d) \o <<"T">> \o TimeText(t)
        \o <<IF off[1] < 0 THEN "-" ELSE "+">> \o Dec2(off[2]) \o <<":">> \o Dec2(off[3])

(***************************************************************************)
(* TrainTimeParser.parse_train_times                                       *)
(***************************************************************************)
\* int(x / 60): Python's int() of a float truncates toward zero.
MinutesUntilFloor(train_utc, current_utc) == (train_utc - current_utc) \div 60

MinutesUntil(train_utc, current_utc) ==
    LET d == train_utc - current_utc
    IN  IF d >= 0 THEN d \div 60 ELSE -((-d) \div 60)

\* if minutes > min_minutes
KeepsAtThreshold(minutes, min_minutes) == minutes >= min_minutes

Keeps(minutes, min_minutes) == minutes > min_minutes

\* One direction's for loop: the kept entries in feed order, or the
\* ValueError of the first time string that does not parse.
RECURSIVE ProcessTrains(_, _, _)
ProcessTrains(list, current_utc, min_minutes) ==
    IF list = <<>> THEN Ok(<<>>)
    ELSE
    LET train == Head(list)
        train_utc == parse_iso8601_to_utc(train.time)
    IN  IF ~train_utc.ok THEN Raise("ValueError")
        ELSE
        LET minutes == MinutesUntil(train_utc.val, current_utc)
            rest == ProcessTrains(Tail(list), current_utc, min_minutes)
        IN  IF ~rest.ok THEN rest
            ELSE IF Keeps(minutes, min_minutes)
            THEN Ok(<<[route |-> train.route, minutes_until |-> minutes,
                       time |-> train.time]>> \o rest.val)
            ELSE rest

\* A decoded feed payload: has_data is 'data' in json_response, and each
\* station record says whether it has the keys 'N' and 'S'.
Station(has_N, N, has_S, S) == [has_N |-> has_N, N |-> N, has_S |-> has_S, S |-> S]
Payload(has_data, data) == [has_data |-> has_data, data |-> data]

EmptyResult == [northbound |-> <<>>, southbound |-> <<>>]

\* network.get_local_time() raised: the exception leaves parse_train_times.
RaisedReading == [kind |-> "raised", epoch |-> 0, tm |-> NoTm, text |-> NoText]

\* The result of the early return for a payload with no station record.
NoDataRaises == Raise("IndexError")

NoDataResult == Ok(EmptyResult)

parse_train_times(json_response, min_minutes, time_response, host_time) ==
    IF time_response.kind = "raised" THEN Raise("OSError")
    ELSE
    LET current_utc == get_current_time_utc(time_response, host_time)
    IN  IF ~json_response.has_data \/ Len(json_response.data) = 0
        THEN NoDataResult
        ELSE
        LET station_data == json_response.data[1]
            north == IF station_data.has_N
                     THEN ProcessTrains(station_data.N, current_utc, min_minutes)
                     ELSE Ok(<<>>)
            south == IF station_data.has_S
                     THEN ProcessTrains(station_data.S, current_utc, min_minutes)
                     ELSE Ok(<<>>)
        IN  IF ~north.ok THEN north
            ELSE IF ~south.ok THEN south
            ELSE Ok([northbound |-> north.val, southbound |-> south.val])

(***************************************************************************)
(* TrainTimeParser.get_next_trains_by_route                                *)
(***************************************************************************)
None == -1000000

\* routes[route][direction] after the loop over one direction: the first
\* minutes_until seen for the route, None when the route has no train.
FirstOfRoute(trains, route) ==
    LET mine == SelectSeq(trains, LAMBDA t : t.route = route)
    IN  IF mine = <<>> THEN None ELSE mine[1].minutes_until

get_next_trains_by_route(parsed_data) ==
    LET keys == {parsed_data.northbound[k].route : k \in 1..Len(parsed_data.northbound)}
                \cup {parsed_data.southbound[k].route : k \in 1..Len(parsed_data.southbound)}
    IN  [route \in keys |->
            [northbound |-> FirstOfRoute(parsed_data.northbound, route),
             southbound |-> FirstOfRoute(parsed_data.southbound, route)]]

(***************************************************************************)
(* format_train_text_with_badges                                           *)
(***************************************************************************)
\* The code point of a one-character route name: sorted() orders str keys
\* by code point.
RouteNames == {"1", "A", "C", "E"}
CodePoint(route) ==
    CASE route = "1" -> 49 [] route = "A" -> 65 [] route = "C" -> 67 [] route = "E" -> 69

\* str(n)
RECURSIVE NatText(_)
NatText(n) == IF n < 10 THEN <<Digits[n + 1]>> ELSE NatText(n \div 10) \o <<Digits[(n % 10) + 1]>>
PyStr(n) == IF n < 0 THEN <<"-">> \o NatText(-n) ELSE NatText(n)

\* ','.join(texts)
RECURSIVE Join(_)
Join(texts) ==
    IF texts = <<>> THEN <<>>
    ELSE IF Len(texts) = 1 THEN texts[1]
    ELSE texts[1] \o <<",">> \o Join(Tail(texts))

\* The dict route_times after the loop: appended one train at a time.
RECURSIVE RouteTimes(_)
RouteTimes(trains) ==
    IF trains = <<>> THEN <<>>
    ELSE
    LET before == RouteTimes(SubSeq(trains, 1, Len(trains) - 1))
        train == trains[Len(trains)]
        at == {k \in 1..Len(before) : before[k].route = train.route}
    IN  IF at = {}
        THEN Append(before, [route |-> train.route, mins |-> <<train.minutes_until>>])
        ELSE [before EXCEPT ![CHOOSE k \in at : TRUE].mins = Append(@, train.minutes_until)]

\* sorted(route_times.keys()) over the insertion-ordered entries.
RECURSIVE SortedEntries(_)
SortedEntries(entries) ==
    IF entries = <<>> THEN <<>>
    ELSE
    LET m == CHOOSE k \in 1..Len(entries) :
                \A j \in 1..Len(entries) : CodePoint(entries[k].route) <= CodePoint(entries[j].route)
    IN  <<entries[m]>> \o SortedEntries(SubSeq(entries, 1, m - 1) \o SubSeq(entries, m + 1, Len(entries)))

SortedKeys(entries) == SortedEntries(entries)

\* route_times[route][:3]
WholeList(mins) == mins

FirstThree(mins) == Slice(mins, 0, 3)

\* The list of (route, times) tuples; times is the joined decimal text.
format_train_text_with_badges(trains) ==
    IF trains = <<>> THEN <<>>
    ELSE
    LET ordered == SortedKeys(RouteTimes(trains))
    IN  [k \in 1..Len(ordered) |->
            [route |-> ordered[k].route,
             times |-> Join([j \in 1..Len(FirstThree(ordered[k].mins)) |->
                                PyStr(FirstThree(ordered[k].mins)[j])])]]

(***************************************************************************)
(* create_scrolling_display: the two content widths                        *)
(***************************************************************************)
RECURSIVE BadgesWidth(_)
BadgesWidth(data) ==
    IF data = <<>> THEN 0
    ELSE 15 + Len(Head(data).times) * 6 + 6 + BadgesWidth(Tail(data))

\* A weather dict is never empty, so "if weather:" always holds in the loop.
Weather(description, temp_f) == [description |-> description, temp_f |-> temp_f]

SouthWidth(trains, weather) ==
    Len(<<"D", "o", "w", "n", "t", "o", "w", "n", ":", " ">>) * 6
        + BadgesWidth(format_train_text_with_badges(trains.southbound))
        + 12 + Len(PyStr(weather.temp_f)) * 6 + 4 + 6

NorthWidth(trains, weather) ==
    Len(<<"U", "p", "t", "o", "w", "n", ":", " ">>) * 6
        + BadgesWidth(format_train_text_with_badges(trains.northbound))
        + 12 + Len(weather.description) * 6

(***************************************************************************)
(* State                                                                   *)
(***************************************************************************)
VARIABLES
    \* the main loop
    pc,                  \* the statement the loop is at
    monotonic,           \* time.monotonic(), in sleep units of 0.1 s
    startup_time,
    current_time,        \* time.monotonic() as read at the top of the cycle
    last_weather_update,
    weather,
    train_data,          \* the decoded payload of fetch_train_data
    time_response,       \* what network.get_local_time() returned
    trains,
    north_width, south_width, display_width,
    north_position, south_position,
    i,                   \* the tick loop's counter
    root_group,          \* the scene shown: "splash", "main" or "blank"
    brightness,
    calls,               \* the network calls made: which was the last, when
                         \* the weather and the train feed were last
                         \* fetched, whether the last train fetch returned
    \* parser.current_utc_time and the reading it was computed from
    current_utc_time, clock_in,
    \* parse_iso8601_to_utc applied to the last two strings
    iso_in, iso_out,
    \* parse_train_times applied to a feed under construction
    feed, min_minutes, parsed,
    \* format_train_text_with_badges and get_next_trains_by_route
    arrivals, north_data, south_data, by_route,
    \* the positions of the two lines since the last content refresh
    trail

loopVars == <<pc, monotonic, startup_time, current_time, last_weather_update, weather, train_data,
              time_response, trains, north_width, south_width, display_width,
              north_position, south_position, i, root_group, brightness, calls>>
clockVars == <<current_utc_time, clock_in>>
isoVars == <<iso_in, iso_out>>
parseVars == <<feed, min_minutes, parsed>>
groupVars == <<arrivals, north_data, south_data, by_route>>
vars == <<loopVars, clockVars, isoVars, parseVars, groupVars, trail>>

\* time.time() of a board with no clock set.
HostTime == 946684800

NoCalls == [last |-> "none", train |-> -1, train_ok |-> TRUE, weather |-> -1]

\* The parts of the state a specification does not exercise.
LoopOff ==
    /\ pc = "off" /\ monotonic = 0 /\ startup_time = 0 /\ current_time = 0
    /\ last_weather_update = 0
    /\ weather = Weather(<<>>, 0) /\ train_data = Payload(FALSE, <<>>)
    /\ time_response = OtherReading /\ trains = EmptyResult
    /\ north_width = 0 /\ south_width = 0 /\ display_width = 0
    /\ north_position = 0 /\ south_position = 0 /\ i = 0
    /\ root_group = "splash" /\ brightness = 1 /\ calls = NoCalls
ClockOff == current_utc_time = 0 /\ clock_in = <<>>
IsoOff == iso_in = <<>> /\ iso_out = <<>>
ParseOff == feed = <<>> /\ min_minutes = 0 /\ parsed = Raise("none")
GroupOff == arrivals = <<>> /\ north_data = <<>> /\ south_data = <<>> /\ by_route = <<>>
TrailOff == trail = <<>>

(***************************************************************************)
(* get_current_time_utc on readings of every shape                         *)
(***************************************************************************)
ClockDates == {<<2026, 1, 7>>, <<2024, 2, 29>>, <<2025, 12, 31>>}
ClockTimes == {<<12, 7, 30>>, <<0, 0, 0>>, <<23, 59, 59>>}
Fractions == {<<>>, <<".", "0", "6", "5">>, <<".", "9", "9", "9">>}

\* Offsets +HHMM / -HHMM as <<sign, hours, minutes>>.
ClockOffsets == {<<-1, 8, 0>>, <<1, 0, 0>>, <<1, 5, 30>>, <<-1, 3, 30>>}
OffsetText(off) == <<IF off[1] < 0 THEN "-" ELSE "+">> \o Dec2(off[2]) \o Dec2(off[3])

\* Tokens found in the offset's place that are no signed 4-digit offset.
MalformedOffsets ==
    {<<"P", "S", "T">>, <<"0", "8", "0", "0">>, <<"+", "0", "8">>,
     <<"+", "0", "8", ":", "0", "0">>}

\* The tokens that follow the time token.
TailTokens(offset_kind, offset_text) ==
    CASE offset_kind = "absent2" -> <<>>
      [] offset_kind = "absent4" -> <<" ", "0", "0", "7", " ", "3">>
      [] OTHER -> <<" ", "0", "0", "7", " ", "3", " ">> \o offset_text
                    \o <<" ", "P", "S", "T">>

ReadingText(r) ==
    DateText(r.date) \o <<" ">> \o TimeText(r.time) \o r.frac
        \o TailTokens(r.offset_kind, r.offset_text)

StringInputs ==
    {[date |-> d, time |-> t, frac |-> f, offset_kind |-> "wellformed",
      off |-> o, offset_text |-> OffsetText(o)] :
        d \in ClockDates, t \in ClockTimes, f \in Fractions, o \in ClockOffsets}
    \cup
    {[date |-> d, time |-> t, frac |-> f, offset_kind |-> "malformed",
      off |-> <<1, 0, 0>>, offset_text |-> m] :
        d \in ClockDates, t \in ClockTimes, f \in Fractions, m \in MalformedOffsets}
    \cup
    {[date |-> d, time |-> t, frac |-> f, offset_kind |-> k,
      off |-> <<1, 0, 0>>, offset_text |-> <<>>] :
        d \in ClockDates, t \in ClockTimes, f \in Fractions, k \in {"absent2", "absent4"}}

\* The local epoch of the date and time tokens, and the seconds of an offset.
LocalEpoch(r) == mktime(r.date[1], r.date[2], r.date[3], r.time[1], r.time[2], r.time[3])
OffsetSeconds(off) == off[1] * (off[2] * 3600 + off[3] * 60)

ClockInit ==
    /\ LoopOff /\ IsoOff /\ ParseOff /\ GroupOff /\ TrailOff
    /\ current_utc_time = 0 /\ clock_in = <<>>

\* What get_current_time_utc leaves alone.
ClockFrame ==
    /\ UNCHANGED <<pc, monotonic, startup_time, current_time, last_weather_update, weather, train_data,
                   trains, north_width, south_width, display_width, north_position,
                   south_position, i, root_group, brightness, calls>>
    /\ UNCHANGED <<isoVars, parseVars, groupVars, trail>>

GetTimeFromString ==
    /\ \E r \in StringInputs :
        /\ clock_in' = r
        /\ time_response' = StringReading(ReadingText(r))
        /\ current_utc_time' = get_current_time_utc(StringReading(ReadingText(r)), HostTime)
    /\ ClockFrame

GetTimeFromNumber ==
    /\ \E d \in ClockDates, t \in ClockTimes :
        /\ clock_in' = [date |-> d, time |-> t]
        /\ time_response' = NumberReading(mktime(d[1], d[2], d[3], t[1], t[2], t[3]))
        /\ current_utc_time' = get_current_time_utc(time_response', HostTime)
    /\ ClockFrame

GetTimeFromStruct ==
    /\ \E d \in ClockDates, t \in ClockTimes :
        /\ clock_in' = [date |-> d, time |-> t]
        /\ time_response' = StructReading(d \o t)
        /\ current_utc_time' = get_current_time_utc(time_response', HostTime)
    /\ ClockFrame

GetTimeFromOther ==
    /\ clock_in' = <<>>
    /\ time_response' = OtherReading
    /\ current_utc_time' = get_current_time_utc(OtherReading, HostTime)
    /\ ClockFrame

ClockNext ==
    \/ GetTimeFromString
    \/ GetTimeFromNumber
    \/ GetTimeFromStruct
    \/ GetTimeFromOther

SpecClock == ClockInit /\ [][ClockNext]_vars


\* C9 (as amended): for a formatted-string reading, an absent offset token
\* is treated as +0000, so the result is the local epoch of the date and
\* time tokens (fraction dropped); a well-formed offset gives
\* localEpoch - offsetSeconds, which for -0800 is localEpoch + 28800; a
\* malformed token is not defaulted: when its characters 2-3 or 4-5 are no
\* decimal number the reading falls back to the host's time.time().
SlicesParse(token) ==
    AllDigits(Slice(token, 1, 3)) /\ AllDigits(Slice(token, 3, 5))

C9_OffsetHandling ==
    time_response.kind = "str" =>
        /\ clock_in.offset_kind \in {"absent2", "absent4"}
              => current_utc_time = LocalEpoch(clock_in)
        /\ clock_in.offset_kind = "wellformed"
              => current_utc_time = LocalEpoch(clock_in) - OffsetSeconds(clock_in.off)
        /\ (clock_in.offset_kind = "wellformed" /\ clock_in.off = <<-1, 8, 0>>)
              => current_utc_time = LocalEpoch(clock_in) + 28800
        /\ (clock_in.offset_kind = "malformed" /\ ~SlicesParse(clock_in.offset_text))
              => current_utc_time = HostTime

\* C9 witness: a reading with only four tokens was normalised to its local epoch.
C9_Witness ==
    /\ time_response.kind = "str"
    /\ clock_in.offset_kind = "absent4"
    /\ Len(SplitBlank(time_response.text)) = 4
    /\ current_utc_time = LocalEpoch(clock_in)

\* C9 as stated: an absent or malformed offset token is treated as +0000.
C9_MalformedAsUtc ==
    time_response.kind = "str" =>
        /\ clock_in.offset_kind \in {"absent2", "absent4", "malformed"}
              => current_utc_time = LocalEpoch(clock_in)
        /\ clock_in.offset_kind = "wellformed"
              => current_utc_time = LocalEpoch(clock_in) - OffsetSeconds(clock_in.off)

(***************************************************************************)
(* parse_iso8601_to_utc on arrival timestamps                              *)
(***************************************************************************)
IsoDates == {<<2026, 1, 7>>, <<2026, 1, 8>>}
IsoTimes == {<<14, 33, 1>>, <<19, 33, 1>>, <<23, 30, 0>>, <<4, 30, 0>>}
IsoOffsets == {<<-1, 5, 0>>, <<1, 0, 0>>, <<1, 5, 30>>, <<-1, 4, 0>>}

IsoInputs ==
    {[date |-> d, time |-> t, off |-> o, form |-> "offset"] :
        d \in IsoDates, t \in IsoTimes, o \in IsoOffsets}

\* Timestamps with no +HH:MM / -HH:MM suffix.
IsoOtherInputs ==
    {[date |-> d, time |-> <<14, 33, 1>>, off |-> <<1, 0, 0>>, form |-> f] :
        d \in IsoDates, f \in {"zulu", "naive"}}

IsoInputText(x) ==
    CASE x.form = "offset" -> IsoText(x.date, x.time, x.off)
      [] x.form = "zulu" -> DateText(x.date) \o <<"T">> \o TimeText(x.time) \o <<"Z">>
      [] OTHER -> DateText(x.date) \o <<"T">> \o TimeText(x.time)

IsoInit ==
    /\ LoopOff /\ ClockOff /\ ParseOff /\ GroupOff /\ TrailOff
    /\ iso_in = <<>> /\ iso_out = <<>>

IsoFrame == UNCHANGED <<loopVars, clockVars, parseVars, groupVars, trail>>

\* The string parsed now is kept with the one parsed before it.
ParseIsoOf(x) ==
    /\ iso_in' = <<x>> \o Slice(iso_in, 0, 1)
    /\ iso_out' = <<parse_iso8601_to_utc(IsoInputText(x))>> \o Slice(iso_out, 0, 1)

ParseIsoWithOffset == (\E x \in IsoInputs : ParseIsoOf(x)) /\ IsoFrame

ParseIsoWithoutOffset == (\E x \in IsoOtherInputs : ParseIsoOf(x)) /\ IsoFrame

IsoNext ==
    \/ ParseIsoWithOffset
    \/ ParseIsoWithoutOffset

SpecIso == IsoInit /\ [][IsoNext]_vars

\* The instant a timestamp's fields denote.
IsoInstant(x) ==
    mktime(x.date[1], x.date[2], x.date[3], x.time[1], x.time[2], x.time[3])
        - OffsetSeconds(x.off)

\* C10: parse_iso8601_to_utc returns the local epoch of the date and time
\* minus the signed offset in seconds, for either sign, so two strings
\* that denote the same instant with different offsets give the same epoch.
C10_IsoToUtc ==
    /\ \A k \in 1..Len(iso_in) :
          iso_in[k].form = "offset" => iso_out[k] = Ok(IsoInstant(iso_in[k]))
    /\ (/\ Len(iso_in) = 2
        /\ iso_in[1].form = "offset" /\ iso_in[2].form = "offset"
        /\ IsoInstant(iso_in[1]) = IsoInstant(iso_in[2]))
          => (iso_out[1].ok /\ iso_out[2].ok /\ iso_out[1].val = iso_out[2].val)

\* C10 witness: 14:33:01-05:00 and 19:33:01+00:00 parsed to the same epoch.
C10_Witness ==
    /\ Len(iso_in) = 2
    /\ iso_in[1] = [date |-> <<2026, 1, 7>>, time |-> <<14, 33, 1>>,
                    off |-> <<-1, 5, 0>>, form |-> "offset"]
    /\ iso_in[2] = [date |-> <<2026, 1, 7>>, time |-> <<19, 33, 1>>,
                    off |-> <<1, 0, 0>>, form |-> "offset"]
    /\ iso_out[1].ok /\ iso_out[1] = iso_out[2]
    /\ iso_out[1].val = 1767814381


(***************************************************************************)
(* parse_train_times on feeds whose arrivals lie around the threshold      *)
(***************************************************************************)
MaxFeed == 2

\* Thresholds passed as min_minutes; the main loop passes 5.
MinMinutesSet == {-2, -1, 0, 5}

\* Seconds from now to the scheduled arrival.
FeedDeltas == {-61, -30, 300, 359, 361, 600}
FeedRoutes == {"A", "C"}

\* now is 2026-01-07 14:30:00 at offset -05:00.
BaseDate == <<2026, 1, 7>>
BaseSecondOfDay == 14 * 3600 + 30 * 60
NowEpoch == mktime(2026, 1, 7, 14, 30, 0) + 5 * 3600

TimeOfDay(sod) == <<sod \div 3600, (sod % 3600) \div 60, sod % 60>>
ArrivalText(delta) == IsoText(BaseDate, TimeOfDay(BaseSecondOfDay + delta), <<-1, 5, 0>>)

FeedTrains(list) ==
    [k \in 1..Len(list) |-> [route |-> list[k].route, time |-> ArrivalText(list[k].delta)]]

FeedPayload(f) == Payload(TRUE, <<Station(TRUE, FeedTrains(f.N), TRUE, FeedTrains(f.S))>>)

NotParsed == Raise("none")

ParseInit ==
    /\ LoopOff /\ ClockOff /\ IsoOff /\ GroupOff /\ TrailOff
    /\ feed = [N |-> <<>>, S |-> <<>>]
    /\ min_minutes \in MinMinutesSet
    /\ parsed = NotParsed

ParseFrame ==
    /\ UNCHANGED <<pc, monotonic, startup_time, current_time, last_weather_update, weather, trains,
                   north_width, south_width, display_width, north_position,
                   south_position, i, root_group, brightness, calls>>
    /\ UNCHANGED <<clockVars, isoVars, groupVars, trail, min_minutes>>

AddNorthbound ==
    /\ parsed = NotParsed
    /\ Len(feed.N) + Len(feed.S) < MaxFeed
    /\ \E r \in FeedRoutes, d \in FeedDeltas :
          feed' = [feed EXCEPT !.N = Append(@, [route |-> r, delta |-> d])]
    /\ UNCHANGED <<parsed, train_data, time_response>>
    /\ ParseFrame

AddSouthbound ==
    /\ parsed = NotParsed
    /\ Len(feed.N) + Len(feed.S) < MaxFeed
    /\ \E r \in FeedRoutes, d \in FeedDeltas :
          feed' = [feed EXCEPT !.S = Append(@, [route |-> r, delta |-> d])]
    /\ UNCHANGED <<parsed, train_data, time_response>>
    /\ ParseFrame

ParseFeed ==
    /\ parsed = NotParsed
    /\ train_data' = FeedPayload(feed)
    /\ time_response' = NumberReading(NowEpoch)
    /\ parsed' = parse_train_times(FeedPayload(feed), min_minutes,
                                   NumberReading(NowEpoch), HostTime)
    /\ UNCHANGED feed
    /\ ParseFrame

ParseNext ==
    \/ AddNorthbound
    \/ AddSouthbound
    \/ ParseFeed

SpecParse == ParseInit /\ [][ParseNext]_vars

\* The entries a direction's result holds when exactly the arrivals
\* satisfying Keep are retained, in feed order, with ETA Eta(delta).
ExpectedEntries(list, Keep(_), Eta(_)) ==
    LET kept == SelectSeq(list, Keep)
    IN  [k \in 1..Len(kept) |->
            [route |-> kept[k].route, minutes_until |-> Eta(kept[k].delta),
             time |-> ArrivalText(kept[k].delta)]]

FloorMinutes(delta) == delta \div 60
TruncatedMinutes(delta) == IF delta >= 0 THEN delta \div 60 ELSE -((-delta) \div 60)

ExpectedResult(Eta(_)) ==
    [northbound |-> ExpectedEntries(feed.N, LAMBDA t : Eta(t.delta) > min_minutes, Eta),
     southbound |-> ExpectedEntries(feed.S, LAMBDA t : Eta(t.delta) > min_minutes, Eta)]

\* C5: parse_train_times keeps an arrival if and only if its ETA is
\* strictly greater than min_minutes, in both directions, and keeps the
\* feed's order: for a threshold m >= 0 the kept arrivals are exactly
\* those at least 60 * (m + 1) seconds away, each with ETA seconds \div 60;
\* with min_minutes = 5, now+361s is kept with ETA 6 and now+300s is not.
C5_StrictThreshold ==
    (parsed # NotParsed /\ min_minutes >= 0) =>
        /\ parsed.ok
        /\ parsed.val.northbound
              = ExpectedEntries(feed.N, LAMBDA t : t.delta >= 60 * (min_minutes + 1),
                                LAMBDA d : d \div 60)
        /\ parsed.val.southbound
              = ExpectedEntries(feed.S, LAMBDA t : t.delta >= 60 * (min_minutes + 1),
                                LAMBDA d : d \div 60)
        /\ \A k \in 1..Len(parsed.val.northbound) :
              parsed.val.northbound[k].minutes_until > min_minutes
        /\ \A k \in 1..Len(parsed.val.southbound) :
              parsed.val.southbound[k].minutes_until > min_minutes

\* C5 witness: with min_minutes = 5 a northbound feed of now+300s and
\* now+361s was parsed to the single entry with ETA 6.
C5_Witness ==
    /\ min_minutes = 5
    /\ feed.N = <<[route |-> "A", delta |-> 300], [route |-> "C", delta |-> 361]>>
    /\ parsed.ok
    /\ Len(parsed.val.northbound) = 1
    /\ parsed.val.northbound[1].route = "C"
    /\ parsed.val.northbound[1].minutes_until = 6

\* C7 (as amended): the ETA of every arrival is (scheduledAtUTC - now) / 60
\* truncated toward zero, which is the floor whenever the arrival is not in
\* the past; the retained set is exactly the arrivals whose truncated value
\* exceeds min_minutes, and for min_minutes >= 0 that is the set the floor
\* gives.
C7_TruncatedEta ==
    parsed # NotParsed =>
        /\ parsed.ok
        /\ parsed.val = ExpectedResult(TruncatedMinutes)
        /\ min_minutes >= 0 => parsed.val = ExpectedResult(FloorMinutes)

\* C7 witness: with min_minutes = -1 an arrival 30 s in the past was kept
\* with ETA 0.
C7_Witness ==
    /\ min_minutes = -1
    /\ feed.N = <<[route |-> "A", delta |-> -30]>>
    /\ parsed.ok
    /\ Len(parsed.val.northbound) = 1
    /\ parsed.val.northbound[1].minutes_until = 0

\* C7 as stated: the ETA is the floor of (scheduledAtUTC - now) / 60 and the
\* retained set is the arrivals whose floor exceeds min_minutes, for every
\* integer min_minutes.
C7_FloorEta ==
    parsed # NotParsed => (parsed.ok /\ parsed.val = ExpectedResult(FloorMinutes))

(***************************************************************************)
(* format_train_text_with_badges and get_next_trains_by_route on the       *)
(* arrivals of one direction                                               *)
(***************************************************************************)
MaxArrivals == 10

GroupRoutes == {"C", "A"}

\* The ETA of the k-th arrival: distinct values, not in ascending order.
ArrivalMinutes(k) == 6 + ((7 * k) % 11)

Reverse(seq) == [k \in 1..Len(seq) |-> seq[Len(seq) + 1 - k]]

GroupInit ==
    /\ LoopOff /\ ClockOff /\ IsoOff /\ ParseOff /\ TrailOff
    /\ arrivals = <<>> /\ north_data = <<>> /\ south_data = <<>> /\ by_route = <<>>

GroupFrame == UNCHANGED <<loopVars, clockVars, isoVars, parseVars, trail>>

Grouped == arrivals # <<>> /\ north_data # <<>>

AddArrival ==
    /\ ~Grouped
    /\ Len(arrivals) < MaxArrivals
    /\ \E r \in GroupRoutes :
          arrivals' = Append(arrivals,
                             [route |-> r, minutes_until |-> ArrivalMinutes(Len(arrivals) + 1),
                              time |-> <<>>])
    /\ UNCHANGED <<north_data, south_data, by_route>>
    /\ GroupFrame

\* The list is given as the northbound arrivals and, reversed, as the
\* southbound ones.
GroupArrivals ==
    /\ ~Grouped
    /\ arrivals # <<>>
    /\ north_data' = format_train_text_with_badges(arrivals)
    /\ south_data' = format_train_text_with_badges(Reverse(arrivals))
    /\ by_route' = get_next_trains_by_route(
                      [northbound |-> arrivals, southbound |-> Reverse(arrivals)])
    /\ UNCHANGED arrivals
    /\ GroupFrame

GroupNext ==
    \/ AddArrival
    \/ GroupArrivals

SpecGroup == GroupInit /\ [][GroupNext]_vars

\* The ETA values a (route, times) tuple shows: its text split at commas.
ShownValues(times) ==
    LET pieces == SplitOn(times, ",")
    IN  [j \in 1..Len(pieces) |-> PyInt(pieces[j]).val]

MinutesOfRoute(list, route) ==
    LET mine == SelectSeq(list, LAMBDA t : t.route = route)
    IN  [j \in 1..Len(mine) |-> mine[j].minutes_until]

GroupedInOrder(data, list) ==
    /\ {data[k].route : k \in 1..Len(data)} = {list[k].route : k \in 1..Len(list)}
    /\ \A k \in 1..(Len(data) - 1) : CodePoint(data[k].route) < CodePoint(data[k + 1].route)
    /\ \A k \in 1..Len(data) :
          LET all == MinutesOfRoute(list, data[k].route)
              shown == ShownValues(data[k].times)
          IN  /\ Len(shown) <= 3
              /\ Len(shown) = (IF Len(all) < 3 THEN Len(all) ELSE 3)
              /\ \A j \in 1..Len(shown) : shown[j] = all[j]

\* C6: the route grouping never yields more than 3 ETA values for a route
\* of a direction, the values are the first 3 of that route in input order,
\* and the routes come in ascending order of their keys;
\* get_next_trains_by_route yields one value per route and direction, the
\* first in input order.
C6_AtMostThree ==
    Grouped =>
        /\ GroupedInOrder(north_data, arrivals)
        /\ GroupedInOrder(south_data, Reverse(arrivals))
        /\ DOMAIN by_route = {arrivals[k].route : k \in 1..Len(arrivals)}
        /\ \A route \in DOMAIN by_route :
              /\ by_route[route].northbound = MinutesOfRoute(arrivals, route)[1]
              /\ by_route[route].southbound = MinutesOfRoute(Reverse(arrivals), route)[1]

\* C6 witness: ten arrivals of one route were grouped into its first three
\* ETA values.
C6_Witness ==
    /\ Grouped
    /\ Len(arrivals) = 10
    /\ \A k \in 1..10 : arrivals[k].route = "C"
    /\ Len(north_data) = 1
    /\ ShownValues(north_data[1].times)
          = <<ArrivalMinutes(1), ArrivalMinutes(2), ArrivalMinutes(3)>>


(***************************************************************************)
(* The inner tick loop's rule for one line                                 *)
(***************************************************************************)
AdvanceWrapBelow(position, width, frame) ==
    IF position - 1 < -width THEN frame ELSE position - 1

AdvanceWrapToZero(position, width, frame) ==
    IF position - 1 <= -width THEN 0 ELSE position - 1

\* position -= 1; if position <= -width: position = display_width
Advance(position, width, frame) ==
    IF position - 1 <= -width THEN frame ELSE position - 1

(***************************************************************************)
(* Two lines of arbitrary small widths scrolled on a small frame           *)
(***************************************************************************)
MaxContentWidth == 4
MaxFrameWidth == 3

ScrollInit ==
    /\ ClockOff /\ IsoOff /\ ParseOff /\ GroupOff
    /\ pc = "scroll" /\ monotonic = 0 /\ startup_time = 0 /\ current_time = 0
    /\ last_weather_update = 0
    /\ weather = Weather(<<>>, 0) /\ train_data = Payload(FALSE, <<>>)
    /\ time_response = OtherReading /\ trains = EmptyResult
    /\ north_width \in 1..MaxContentWidth
    /\ south_width \in 1..MaxContentWidth
    /\ display_width \in 1..MaxFrameWidth
    /\ north_position = 0 /\ south_position = 0 /\ i = 0
    /\ root_group = "main" /\ brightness = 1 /\ calls = NoCalls
    /\ trail = [north |-> <<0>>, south |-> <<0>>]

\* Long enough for each line to pass twice through every position.
ScrollTicks ==
    2 * ((IF north_width > south_width THEN north_width ELSE south_width) + display_width)

ScrollTick ==
    /\ pc = "scroll"
    /\ i < ScrollTicks
    /\ north_position' = Advance(north_position, north_width, display_width)
    /\ south_position' = Advance(south_position, south_width, display_width)
    /\ i' = i + 1
    /\ monotonic' = monotonic + 1
    /\ trail' = [north |-> Append(trail.north, north_position'),
                 south |-> Append(trail.south, south_position')]
    /\ UNCHANGED <<pc, startup_time, current_time, last_weather_update, weather,
                   train_data, time_response, trains, north_width, south_width,
                   display_width, root_group, brightness, calls>>
    /\ UNCHANGED <<clockVars, isoVars, parseVars, groupVars>>

ScrollNext == ScrollTick

SpecScroll == ScrollInit /\ [][ScrollNext]_vars

ReturnsCongruent(positions, period) ==
    \A k \in 1..Len(positions) :
        k + period <= Len(positions)
            => (positions[k + period] - positions[k]) % period = 0

\* C4: for any content width >= 1 and frame width >= 1, advancing a line by
\* contentWidth + frameWidth ticks returns it to a position congruent
\* modulo contentWidth + frameWidth to the position it started from, for
\* every position the line reaches, the initial position 0 included.
C4_WrapPeriod ==
    pc = "scroll" =>
        /\ ReturnsCongruent(trail.north, north_width + display_width)
        /\ ReturnsCongruent(trail.south, south_width + display_width)

\* C4 witness: a line of width 3 on a frame of width 2 wrapped to the right
\* edge and, 5 ticks after its start at 0, is at 0 again.
C4_Witness ==
    /\ pc = "scroll"
    /\ north_width = 3 /\ display_width = 2
    /\ Len(trail.north) = 6
    /\ trail.north[1] = 0 /\ trail.north[4] = 2 /\ trail.north[6] = 0


(***************************************************************************)
(* The main loop                                                           *)
(***************************************************************************)
\* time.sleep(0.1) is one unit of the monotonic clock.
TicksPerSecond == 10
Seconds(n) == n * TicksPerSecond

run_duration == Seconds(20 * 60)
WeatherPeriod == Seconds(600)
RetryDelay == Seconds(10)
DormantSleepTime == Seconds(3600)
TickCount == 600
DisplayWidth == 64

\* Dormant time.sleep(3600) calls followed before the model stops the clock.
MaxDormantSleeps == 2

\* What fetch_weather_data returns: a snapshot, or the placeholder of its
\* except branch.
ClearSky == Weather(<<"C", "l", "e", "a", "r", " ", "S", "k", "y">>, 72)
UnknownWeather == Weather(<<"U", "n", "k", "n", "o", "w", "n">>, 0)
WeatherResults == {ClearSky, UnknownWeather}

\* Payloads fetch_train_data returns.
NoDataPayload == Payload(FALSE, <<>>)
EmptyDataPayload == Payload(TRUE, <<>>)
\* One northbound arrival ten minutes away and no 'S' key.
GoodPayload ==
    Payload(TRUE, <<Station(TRUE, <<[route |-> "A", time |-> ArrivalText(600)]>>,
                            FALSE, <<>>)>>)
\* A timestamp with no offset makes parse_iso8601_to_utc raise ValueError.
BadTimePayload ==
    Payload(TRUE, <<Station(
        TRUE, <<[route |-> "A",
                 time |-> DateText(BaseDate) \o <<"T">> \o TimeText(<<14, 40, 0>>)]>>,
        FALSE, <<>>)>>)
LoopPayloads == {NoDataPayload, EmptyDataPayload, GoodPayload, BadTimePayload}

\* What network.get_local_time() does in the loop: returns, or raises.
LoopReadings == {NumberReading(NowEpoch), RaisedReading}

Dormant == pc = "dormant"
Active == pc \in {"cap_check", "weather_check", "fetch", "parse", "display", "ticks", "except"}

\* What no statement of the loop touches.
LoopFrame == UNCHANGED <<clock_in, isoVars, parseVars, groupVars, trail>>

\* Lines 653-667: the state at the initial weather fetch.
Init ==
    /\ ClockOff /\ IsoOff /\ ParseOff /\ GroupOff /\ TrailOff
    /\ pc = "initial_weather"
    /\ monotonic = 0 /\ startup_time = 0 /\ current_time = 0
    /\ last_weather_update = 0
    /\ weather = Weather(<<>>, 0)
    /\ train_data = NoDataPayload /\ time_response = OtherReading
    /\ trains = EmptyResult
    /\ north_width = 0 /\ south_width = 0 /\ display_width = DisplayWidth
    /\ north_position = 0 /\ south_position = 0 /\ i = 0
    /\ root_group = "splash" /\ brightness = 1
    /\ calls = NoCalls


\* Lines 657-660: weather = fetch_weather_data(); last_weather_update = now.
InitialWeather ==
    /\ pc = "initial_weather"
    /\ \E w \in WeatherResults : weather' = w
    /\ calls' = [calls EXCEPT !.last = "weather", !.weather = monotonic]
    /\ last_weather_update' = monotonic
    /\ pc' = "cap_check"
    /\ UNCHANGED <<monotonic, startup_time, current_time, train_data, time_response,
                   trains, north_width, south_width, display_width, north_position,
                   south_position, i, root_group, brightness, current_utc_time>>
    /\ LoopFrame

\* if current_time - startup_time >= run_duration
CapReachedLate(now, start) == now - start > run_duration

CapReached(now, start) == now - start >= run_duration

\* Lines 672-684: read the clock; at the cap blank the display, set the
\* brightness to 0 and enter the sleep loop.
CapCheck ==
    /\ pc = "cap_check"
    /\ current_time' = monotonic
    /\ IF CapReached(monotonic, startup_time)
       THEN /\ root_group' = "blank"
            /\ brightness' = 0
            /\ pc' = "dormant"
       ELSE /\ pc' = "weather_check"
            /\ UNCHANGED <<root_group, brightness>>
    /\ UNCHANGED <<monotonic, startup_time, last_weather_update, weather, train_data,
                   time_response, trains, north_width, south_width, display_width,
                   north_position, south_position, i, calls, current_utc_time>>
    /\ LoopFrame

\* Lines 683-684: while True: time.sleep(3600).
DormantSleep ==
    /\ pc = "dormant"
    /\ monotonic < current_time + MaxDormantSleeps * DormantSleepTime
    /\ monotonic' = monotonic + DormantSleepTime
    /\ UNCHANGED <<pc, startup_time, current_time, last_weather_update, weather,
                   train_data, time_response, trains, north_width, south_width,
                   display_width, north_position, south_position, i, root_group,
                   brightness, calls, current_utc_time>>
    /\ LoopFrame

\* if current_time - last_weather_update >= 600
WeatherDueLate(now, last) == now - last > WeatherPeriod

WeatherDue(now, last) == now - last >= WeatherPeriod

\* Lines 687-690: the weather refresh, when it is due.
WeatherCheck ==
    /\ pc = "weather_check"
    /\ IF WeatherDue(current_time, last_weather_update)
       THEN /\ \E w \in WeatherResults : weather' = w
            /\ last_weather_update' = current_time
            /\ calls' = [calls EXCEPT !.last = "weather", !.weather = monotonic]
       ELSE UNCHANGED <<weather, last_weather_update, calls>>
    /\ pc' = "fetch"
    /\ UNCHANGED <<monotonic, startup_time, current_time, train_data, time_response,
                   trains, north_width, south_width, display_width, north_position,
                   south_position, i, root_group, brightness, current_utc_time>>
    /\ LoopFrame

\* Line 694: train_data = fetch_train_data("A31"), which returns a payload
\* or raises the transport's error.
FetchTrainData ==
    /\ pc = "fetch"
    /\ \/ /\ \E payload \in LoopPayloads : train_data' = payload
          /\ calls' = [calls EXCEPT !.last = "train", !.train = monotonic, !.train_ok = TRUE]
          /\ pc' = "parse"
       \/ /\ calls' = [calls EXCEPT !.last = "train", !.train = monotonic, !.train_ok = FALSE]
          /\ pc' = "except"
          /\ UNCHANGED train_data
    /\ UNCHANGED <<monotonic, startup_time, current_time, last_weather_update, weather,
                   time_response, trains, north_width, south_width, display_width,
                   north_position, south_position, i, root_group, brightness,
                   current_utc_time>>
    /\ LoopFrame

\* The min_minutes the loop passes.
LoopMinMinutes == 5

\* parse_train_times(train_data, min_minutes=5) for each payload the feed
\* can return and each reading the clock can give.
LoopParseResults ==
    {[payload |-> payload, reading |-> reading,
      result |-> parse_train_times(payload, LoopMinMinutes, reading, HostTime)] :
        payload \in LoopPayloads, reading \in LoopReadings}

LoopParse(payload, reading) ==
    (CHOOSE c \in LoopParseResults : c.payload = payload /\ c.reading = reading).result

\* Line 695: trains = parse_train_times(train_data, min_minutes=5); the
\* clock is read first, and an exception leaves trains as it was.
ParseTrainTimes ==
    /\ pc = "parse"
    /\ \E reading \in LoopReadings :
       \E r \in {LoopParse(train_data, reading)} :
          /\ time_response' = reading
          /\ current_utc_time' = IF reading.kind = "raised" THEN current_utc_time
                                 ELSE get_current_time_utc(reading, HostTime)
          /\ IF r.ok
             THEN trains' = r.val /\ pc' = "display"
             ELSE UNCHANGED trains /\ pc' = "except"
    /\ calls' = [calls EXCEPT !.last = "clock"]
    /\ UNCHANGED <<monotonic, startup_time, current_time, last_weather_update, weather,
                   train_data, north_width, south_width, display_width, north_position,
                   south_position, i, root_group, brightness>>
    /\ LoopFrame

\* Lines 706-722: build the scene, take its widths, reset both positions;
\* or the build raises (the handler's gc.collect() expects MemoryError).
CreateScrollingDisplay ==
    /\ pc = "display"
    /\ \/ /\ north_width' = NorthWidth(trains, weather)
          /\ south_width' = SouthWidth(trains, weather)
          /\ display_width' = DisplayWidth
          /\ root_group' = "main"
          /\ north_position' = 0
          /\ south_position' = 0
          /\ i' = 0
          /\ pc' = "ticks"
       \/ /\ pc' = "except"
          /\ UNCHANGED <<north_width, south_width, display_width, root_group,
                         north_position, south_position, i>>
    /\ UNCHANGED <<monotonic, startup_time, current_time, last_weather_update, weather,
                   train_data, time_response, trains, brightness, calls,
                   current_utc_time>>
    /\ LoopFrame

\* Lines 724-739: one pass of the for loop: both lines move, then
\* time.sleep(0.1); after the last pass the while loop starts over.
TickOneMore ==
    /\ pc = "ticks"
    /\ i <= TickCount
    /\ north_position' = Advance(north_position, north_width, display_width)
    /\ south_position' = Advance(south_position, south_width, display_width)
    /\ monotonic' = monotonic + 1
    /\ i' = i + 1
    /\ pc' = IF i = TickCount THEN "cap_check" ELSE "ticks"
    /\ UNCHANGED <<startup_time, current_time, last_weather_update, weather, train_data,
                   time_response, trains, north_width, south_width, display_width,
                   root_group, brightness, calls, current_utc_time>>
    /\ LoopFrame

Tick ==
    /\ pc = "ticks"
    /\ i < TickCount
    /\ north_position' = Advance(north_position, north_width, display_width)
    /\ south_position' = Advance(south_position, south_width, display_width)
    /\ monotonic' = monotonic + 1
    /\ i' = i + 1
    /\ pc' = IF i + 1 = TickCount THEN "cap_check" ELSE "ticks"
    /\ UNCHANGED <<startup_time, current_time, last_weather_update, weather, train_data,
                   time_response, trains, north_width, south_width, display_width,
                   root_group, brightness, calls, current_utc_time>>
    /\ LoopFrame

\* The clock after the handler's time.sleep(10).
AfterNoBackoff(now) == now

AfterBackoff(now) == now + RetryDelay

\* Lines 741-745: log, collect, time.sleep(10), and back to the top.
ExceptHandler ==
    /\ pc = "except"
    /\ monotonic' = AfterBackoff(monotonic)
    /\ pc' = "cap_check"
    /\ UNCHANGED <<startup_time, current_time, last_weather_update, weather, train_data,
                   time_response, trains, north_width, south_width, display_width,
                   north_position, south_position, i, root_group, brightness, calls,
                   current_utc_time>>
    /\ LoopFrame

Next ==
    \/ InitialWeather
    \/ CapCheck
    \/ DormantSleep
    \/ WeatherCheck
    \/ FetchTrainData
    \/ ParseTrainTimes
    \/ CreateScrollingDisplay
    \/ Tick
    \/ ExceptHandler

Spec == Init /\ [][Next]_vars


\* C1: once 1200 seconds have elapsed from start, the cap check (which
\* runs at exactly 1200 s when every cycle succeeded) moves the session
\* from Active to Dormant, blanks the scene and sets the brightness to 0;
\* the move happens only there and never while less than 1200 s have
\* elapsed; Dormant is never left, so it is entered once; and from then on
\* no train, clock or weather fetch is made and nothing but the clock
\* changes.  No fetch is ever made 1200 s or more after start.
C1_DormantAtCap ==
    [][/\ (pc = "cap_check" /\ monotonic - startup_time >= Seconds(1200))
            => (pc' = "dormant" /\ root_group' = "blank" /\ brightness' = 0)
       /\ (pc = "cap_check" /\ monotonic - startup_time < Seconds(1200))
            => (pc' # "dormant" /\ root_group' = root_group /\ brightness' = 1)
       /\ (pc # "dormant" /\ pc' = "dormant") => pc = "cap_check"
       /\ pc = "dormant"
            => /\ pc' = "dormant" /\ root_group' = "blank" /\ brightness' = 0
               /\ calls' = calls
               /\ UNCHANGED <<weather, last_weather_update, train_data, time_response,
                              trains, north_position, south_position>>
       /\ calls' # calls => monotonic - startup_time < Seconds(1200)
      ]_vars

\* C1 witness: the session went Dormant at exactly 1200 s, the display is
\* blank and dark, and it has slept since with the last fetch made before
\* the cap.
C1_Witness ==
    /\ pc = "dormant"
    /\ current_time - startup_time = Seconds(1200)
    /\ monotonic > current_time
    /\ root_group = "blank" /\ brightness = 0
    /\ calls.train < startup_time + Seconds(1200)

\* C2 (as amended): when fetch_train_data raises during an Active cycle the
\* session stays Active (the handler is entered, the scene and brightness
\* are left alone and the loop goes back to its top), no retry count is
\* kept, and the next cycle's arrival fetch is attempted only after at
\* least 10 seconds.
C2_RetryAfterBackoff ==
    [][/\ (pc = "fetch" /\ pc' # "parse")
            => (pc' = "except" /\ ~calls'.train_ok /\ calls'.train = monotonic)
       /\ pc = "except"
            => /\ pc' = "cap_check"
               /\ monotonic' >= monotonic + Seconds(10)
               /\ root_group' = root_group /\ brightness' = brightness
               /\ UNCHANGED <<startup_time, current_time, last_weather_update,
                              north_width, south_width, display_width,
                              north_position, south_position, i>>
       /\ (pc = "fetch" /\ ~calls.train_ok)
            => monotonic >= calls.train + Seconds(10)
      ]_vars

\* C2 witness: a cycle whose arrival fetch failed at time 0 is at its next
\* arrival fetch, 10 seconds later.
C2_Witness ==
    /\ pc = "fetch"
    /\ ~calls.train_ok /\ calls.train = 0
    /\ monotonic = Seconds(10)
    /\ Active

\* C2 as stated: the handler also increments a retry count, that is, some
\* counter of the loop goes up by one when the handler runs.
C2_RetryCounted ==
    [][pc = "except"
          => /\ pc' = "cap_check"
             /\ monotonic' >= monotonic + Seconds(10)
             /\ \/ startup_time' = startup_time + 1
                \/ current_time' = current_time + 1
                \/ last_weather_update' = last_weather_update + 1
                \/ north_width' = north_width + 1
                \/ south_width' = south_width + 1
                \/ display_width' = display_width + 1
                \/ north_position' = north_position + 1
                \/ south_position' = south_position + 1
                \/ i' = i + 1
                \/ brightness' = brightness + 1
      ]_vars

\* C3: on every animation tick each line's position goes down by exactly 1
\* pixel; if the decremented position is <= -contentWidth it is reset to
\* the frame width, otherwise it is left at the decremented value; each
\* line uses its own width and position, so a wrap of one line never
\* changes the other line's position.
C3_TickRule ==
    [][pc = "ticks"
          => /\ north_position' = IF north_position - 1 <= -north_width
                                  THEN display_width ELSE north_position - 1
             /\ south_position' = IF south_position - 1 <= -south_width
                                  THEN display_width ELSE south_position - 1
             /\ UNCHANGED <<north_width, south_width, display_width>>
      ]_vars

\* C3 witness: the Up line has just wrapped to the frame width while the
\* narrower Down line, which wrapped earlier, is on its way left.
C3_Witness ==
    /\ pc = "ticks"
    /\ i = north_width
    /\ south_width < north_width
    /\ north_position = display_width
    /\ south_position = display_width - (north_width - south_width)

\* C8: a payload with no 'data' container, or with an empty 'data'
\* sequence, makes parse_train_times return the empty schedule as a normal
\* result: when the clock reading returns, trains becomes empty in both
\* directions and the loop goes on to build the display, not to the
\* handler.
C8_NoDataIsEmpty ==
    [][(/\ pc = "parse"
        /\ (~train_data.has_data \/ Len(train_data.data) = 0)
        /\ time_response'.kind # "raised")
          => (trains' = [northbound |-> <<>>, southbound |-> <<>>] /\ pc' = "display")
      ]_vars

\* C8 witness: a payload without 'data' was parsed and the loop is about
\* to build the display from an empty schedule.
C8_Witness ==
    /\ pc = "display"
    /\ ~train_data.has_data
    /\ calls.last = "clock"
    /\ trains = [northbound |-> <<>>, southbound |-> <<>>]


\* C11: inside the loop a cycle fetches the weather if and only if at least
\* 600 seconds have passed on the monotonic clock since the last weather
\* refresh, and the refresh restarts the timer at the cycle's clock reading;
\* the weather is fetched nowhere else in the loop; every Active cycle goes
\* on to the arrival fetch whatever the weather timer says; and a failed
\* arrival fetch and its handler leave the weather timer and the weather
\* as they were.
C11_WeatherCadence ==
    [][/\ (pc = "weather_check" /\ current_time - last_weather_update >= Seconds(600))
            => /\ calls'.last = "weather" /\ calls'.weather = monotonic
               /\ last_weather_update' = current_time
       /\ (pc = "weather_check" /\ current_time - last_weather_update < Seconds(600))
            => /\ calls' = calls
               /\ UNCHANGED <<weather, last_weather_update>>
       /\ calls'.weather # calls.weather => pc \in {"initial_weather", "weather_check"}
       /\ pc = "weather_check" => pc' = "fetch"
       /\ pc = "fetch" => (calls'.last = "train" /\ calls'.train = monotonic)
       /\ pc \in {"fetch", "except"} => UNCHANGED <<weather, last_weather_update>>
       /\ (pc = "except" /\ pc' = "cap_check" /\ ~calls.train_ok)
            => calls'.weather = calls.weather
      ]_vars

\* C11 witness: the cycle that starts exactly 600 s after the initial
\* weather fetch has refreshed the weather, restarted the timer at its
\* clock reading and is at its arrival fetch.
C11_Witness ==
    /\ pc = "fetch"
    /\ current_time = Seconds(600)
    /\ last_weather_update = Seconds(600)
    /\ calls.last = "weather" /\ calls.weather = Seconds(600)


\* C12: every Active cycle takes its steps in the fixed order cap check,
\* conditional weather refresh, arrival fetch, schedule rebuild, scroll
\* content rebuild, tick loop; a step that raises goes to the handler and
\* from there to the next cap check; the tick loop starts at 0 and makes at
\* most 600 passes; and a pass of the tick loop issues no fetch and leaves
\* the content widths, the schedule, the payload and the weather alone.
C12_CycleOrder ==
    [][/\ pc = "cap_check" => pc' \in {"weather_check", "dormant"}
       /\ pc = "weather_check" => pc' = "fetch"
       /\ pc = "fetch" => pc' \in {"parse", "except"}
       /\ pc = "parse" => pc' \in {"display", "except"}
       /\ pc = "display" => pc' \in {"ticks", "except"}
       /\ (pc = "display" /\ pc' = "ticks") => i' = 0
       /\ pc = "except" => pc' = "cap_check"
       /\ pc = "ticks"
            => /\ i < 600 /\ i' = i + 1
               /\ pc' = IF i' = 600 THEN "cap_check" ELSE "ticks"
               /\ calls' = calls
               /\ UNCHANGED <<north_width, south_width, display_width, trains,
                              train_data, time_response, weather, last_weather_update,
                              current_time, startup_time, root_group, brightness>>
      ]_vars

\* C12 witness: the first cycle fetched at time 0, built its content and
\* has just finished its 600th pass, 60 s later, with both lines moved.
C12_Witness ==
    /\ pc = "cap_check"
    /\ i = 600
    /\ monotonic = Seconds(60)
    /\ calls.train = 0 /\ calls.train_ok /\ calls.last = "clock"
    /\ root_group = "main"
    /\ north_position # 0 /\ south_position # 0


\* Line 708 or 718 raising: the content is not rebuilt.
DisplayRaises ==
    /\ pc = "display"
    /\ pc' = "except"
    /\ UNCHANGED <<north_width, south_width, display_width, root_group,
                   north_position, south_position, i>>
    /\ UNCHANGED <<monotonic, startup_time, current_time, last_weather_update, weather,
                   train_data, time_response, trains, brightness, calls,
                   current_utc_time>>
    /\ LoopFrame

\* The session in which no cycle gets as far as the tick loop: the fetch,
\* the parse or the content build raises in every cycle.
NextFailing ==
    \/ InitialWeather
    \/ CapCheck
    \/ DormantSleep
    \/ WeatherCheck
    \/ FetchTrainData
    \/ ParseTrainTimes
    \/ DisplayRaises
    \/ ExceptHandler

\* parse_train_times returning or raising: the step ParseTrainTimes takes,
\* seen on pc alone.  ParseTrainTimes can be taken exactly when pc = "parse"
\* and always changes pc.
ParseStep == pc = "parse" /\ pc' \in {"display", "except"}

\* Every call of the loop returns or raises and every sleep ends: a step
\* that can be taken is eventually taken.
SpecFailing ==
    /\ Init /\ [][NextFailing]_vars
    /\ WF_vars(InitialWeather) /\ WF_vars(CapCheck) /\ WF_vars(DormantSleep)
    /\ WF_vars(WeatherCheck) /\ WF_vars(FetchTrainData) /\ WF_pc(ParseStep)
    /\ WF_vars(DisplayRaises) /\ WF_vars(ExceptHandler)

\* C13: the session reaches Dormant whatever fails: when each fetch returns
\* or raises, every run ends up Dormant; once 1200 seconds have elapsed an
\* Active session goes Dormant at its next cap check, however many cycles
\* failed in a row; the handler always leads back to the cap check; and
\* Dormant is entered only from a cap check made 1200 s or more after
\* start.
C13_ReachesDormant ==
    /\ <>(pc = "dormant")
    /\ (pc # "dormant" /\ monotonic - startup_time >= Seconds(1200)) ~> (pc = "dormant")
    /\ (pc = "except") ~> (pc = "cap_check")
    /\ [][/\ (pc = "cap_check" /\ monotonic - startup_time >= Seconds(1200))
               => pc' = "dormant"
          /\ (pc # "dormant" /\ pc' = "dormant")
               => (pc = "cap_check" /\ monotonic - startup_time >= Seconds(1200))
         ]_vars

\* C13 witness: the session is Dormant although no cycle ever got as far
\* as building its content (the splash scene was never replaced) and the
\* last arrival fetch, 10 s before the cap, failed.
C13_Witness ==
    /\ pc = "dormant"
    /\ current_time - startup_time = Seconds(1200)
    /\ north_width = 0 /\ south_width = 0
    /\ ~calls.train_ok /\ calls.train = Seconds(1190)


\* C14: each content refresh resets both positions to 0 and gives both
\* lines a content width of at least 1; after every tick each position
\* satisfies -contentWidth < position <= frameWidth, so -contentWidth is
\* never a position a line is drawn at.
C14_PositionRange ==
    [][/\ (pc = "display" /\ pc' = "ticks")
            => /\ north_position' = 0 /\ south_position' = 0
               /\ north_width' >= 1 /\ south_width' >= 1
       /\ pc = "ticks"
            => /\ -north_width < north_position' /\ north_position' <= display_width
               /\ -south_width < south_position' /\ south_position' <= display_width
      ]_vars

\* C14 witness: in a cycle after the first, whose refresh reset the
\* positions, the Up line has moved to 1 - contentWidth, the leftmost
\* position it takes; its next tick wraps it.
C14_Witness ==
    /\ pc = "ticks"
    /\ current_time > startup_time
    /\ i = north_width - 1
    /\ north_position = 1 - north_width
    /\ south_position > 0

====
